---- MODULE Spec2Model ----
(***************************************************************************)
(* Balance indexer of the calamari squid: the batch handler                *)
(* processBalances, the event account extractors, the balance reconciler   *)
(* saveAccounts and the chain-state snapshots, run by the batch processor  *)
(* inside one store transaction per batch.                                  *)
(***************************************************************************)
EXTENDS Integers, Sequences, FiniteSets, TLC

\* ------------------------------------------------------------------ bounds
\* Height of the last block the archive serves.
MaxHeight == 2
\* Most blocks the archive puts in one batch (ctx.blocks).
MaxBatch == 2
\* Most faults of a run: failed transactions, restarts of the process, and
\* blocks whose runtime has an event or storage hash other than the usual one.
MaxFaults == 1

\* ------------------------------------------------------- program constants
\* 12 hours, in milliseconds of on-chain time.
SAVE_PERIOD == 12 * 60 * 60 * 1000

\* lastStateTimestamp before its first use (undefined).
Undefined == 0 - 1

\* -------------------------------------------------------------- the inputs
\* Raw account identifiers (public keys).
Accounts == {1, 2}

\* On-chain time between two consecutive blocks.
TimeSteps == {SAVE_PERIOD \div 2, SAVE_PERIOD}

\* Balances System.Account can hold for an account.
BalancePool ==
    { [free |-> 0, reserved |-> 0],
      [free |-> 2, reserved |-> 1] }

\* Type hash of the System.Account storage item at a block: not defined by the
\* runtime, one of the two known hashes, or a hash no decoder knows.
AccountHashes == {"none", "V3", "other"}

UsualAccountHash == "V3"

\* Type hash of the Balances.TotalIssuance storage item at a block.
IssuanceHashes == {"none", "V1", "other"}

UsualIssuanceHash == "V1"

\* Balances.TotalIssuance at a block.
IssuanceAt(height) == 100 + height

EventNames ==
    << "Balances.BalanceSet", "Balances.Endowed", "Balances.Deposit",
       "Balances.Reserved", "Balances.Unreserved", "Balances.Withdraw",
       "Balances.Slashed", "Balances.Transfer", "Balances.ReserveRepatriated" >>

PairEvents == {"Balances.Transfer", "Balances.ReserveRepatriated"}

\* The older known hash of an event: Withdraw and Slashed exist since V3100.
OldHash(name) ==
    IF name \in {"Balances.Withdraw", "Balances.Slashed"} THEN "V3100" ELSE "V1"

\* The payload of an event: a tuple before V3110, a struct from V3110 on.
Payload(name, hash, a, b) ==
    IF hash = "V3110"
    THEN IF name \in PairEvents THEN [from |-> a, to |-> b, amount |-> 1]
         ELSE IF name = "Balances.Endowed" THEN [account |-> a, amount |-> 1]
         ELSE [who |-> a, amount |-> 1]
    ELSE IF name \in PairEvents THEN << a, b, 1 >> ELSE << a, 1 >>

EventItem(name, hash, args) == [name |-> name, hash |-> hash, args |-> args]

\* Every supported event kind with its older hash (accounts 1, 2), with the
\* V3110 hash (accounts 2, 1) and with a hash no decoder knows.
ItemPool ==
    [i \in 1..9 |->
        EventItem(EventNames[i], OldHash(EventNames[i]),
                  Payload(EventNames[i], OldHash(EventNames[i]), 1, 2))]
    \o [i \in 1..9 |->
        EventItem(EventNames[i], "V3110", Payload(EventNames[i], "V3110", 2, 1))]
    \o [i \in 1..9 |->
        EventItem(EventNames[i], "other", Payload(EventNames[i], "other", 1, 2))]

\* block.items of a block of the chain: no event (choice 0), or one event:
\* Endowed of account 2 (V3110), Transfer from 1 to 2 (V1), or, as a fault,
\* a Withdraw with an unknown hash.
UsualItems == {0, 11, 8}

FaultyItems == {24}

Items(choice) == IF choice = 0 THEN <<>> ELSE << ItemPool[choice] >>

\* ------------------------------------------------------------ conversions
toHex(raw) == << "0x", raw >>

decodeHex(hex) == hex[2]

encodeId(raw) == << "ss58", raw >>

\* ------------------------------------------------- event account extractors
Ok(ids) == [ok |-> TRUE, ids |-> ids, error |-> ""]

Throw(name) == [ok |-> FALSE, ids |-> <<>>, error |-> name]

UnknownVersionError(name) == "There is no relevant version for " \o name

getBalanceSetAccount(event) ==
    IF event.hash = "V1" THEN Ok(<< toHex(event.args[1]) >>)
    ELSE IF event.hash = "V3110" THEN Ok(<< toHex(event.args.who) >>)
    ELSE Throw(UnknownVersionError("BalancesBalanceSetEvent"))

\* getTransferAccounts giving the source of the transfer only.
getTransferAccountsSourceOnly(event) ==
    IF event.hash = "V1" THEN Ok(<< toHex(event.args[1]) >>)
    ELSE IF event.hash = "V3110" THEN Ok(<< toHex(event.args.from) >>)
    ELSE Throw(UnknownVersionError("BalancesTransferEvent"))

getTransferAccounts(event) ==
    IF event.hash = "V1" THEN Ok(<< toHex(event.args[1]), toHex(event.args[2]) >>)
    ELSE IF event.hash = "V3110"
    THEN Ok(<< toHex(event.args.from), toHex(event.args.to) >>)
    ELSE Throw(UnknownVersionError("BalancesTransferEvent"))

getEndowedAccount(event) ==
    IF event.hash = "V1" THEN Ok(<< toHex(event.args[1]) >>)
    ELSE IF event.hash = "V3110" THEN Ok(<< toHex(event.args.account) >>)
    ELSE Throw(UnknownVersionError("BalancesEndowedEvent"))

getDepositAccount(event) ==
    IF event.hash = "V1" THEN Ok(<< toHex(event.args[1]) >>)
    ELSE IF event.hash = "V3110" THEN Ok(<< toHex(event.args.who) >>)
    ELSE Throw(UnknownVersionError("BalancesDepositEvent"))

getReservedAccount(event) ==
    IF event.hash = "V1" THEN Ok(<< toHex(event.args[1]) >>)
    ELSE IF event.hash = "V3110" THEN Ok(<< toHex(event.args.who) >>)
    ELSE Throw(UnknownVersionError("BalancesReservedEvent"))

getUnreservedAccount(event) ==
    IF event.hash = "V1" THEN Ok(<< toHex(event.args[1]) >>)
    ELSE IF event.hash = "V3110" THEN Ok(<< toHex(event.args.who) >>)
    ELSE Throw(UnknownVersionError("BalancesUnreservedEvent"))

getWithdrawAccount(event) ==
    IF event.hash = "V3100" THEN Ok(<< toHex(event.args[1]) >>)
    ELSE IF event.hash = "V3110" THEN Ok(<< toHex(event.args.who) >>)
    ELSE Throw(UnknownVersionError("BalancesWithdrawEvent"))

getSlashedAccount(event) ==
    IF event.hash = "V3100" THEN Ok(<< toHex(event.args[1]) >>)
    ELSE IF event.hash = "V3110" THEN Ok(<< toHex(event.args.who) >>)
    ELSE Throw(UnknownVersionError("BalancesSlashedEvent"))

getReserveRepatriatedAccounts(event) ==
    IF event.hash = "V1" THEN Ok(<< toHex(event.args[1]), toHex(event.args[2]) >>)
    ELSE IF event.hash = "V3110"
    THEN Ok(<< toHex(event.args.from), toHex(event.args.to) >>)
    ELSE Throw(UnknownVersionError("BalancesReserveRepatriatedEvent"))

Range(seq) == {seq[i] : i \in 1..Len(seq)}

\* The switch over item.name: the accumulator with the event's accounts
\* added, or the error the extractor throws.
processBalancesEventItem(item, ids) ==
    LET got ==
            CASE item.name = "Balances.BalanceSet" -> getBalanceSetAccount(item)
              [] item.name = "Balances.Endowed" -> getEndowedAccount(item)
              [] item.name = "Balances.Deposit" -> getDepositAccount(item)
              [] item.name = "Balances.Reserved" -> getReservedAccount(item)
              [] item.name = "Balances.Unreserved" -> getUnreservedAccount(item)
              [] item.name = "Balances.Withdraw" -> getWithdrawAccount(item)
              [] item.name = "Balances.Slashed" -> getSlashedAccount(item)
              [] item.name = "Balances.Transfer" -> getTransferAccounts(item)
              [] item.name = "Balances.ReserveRepatriated" ->
                    getReserveRepatriatedAccounts(item)
              [] OTHER -> Ok(<<>>)
    IN  [ok |-> got.ok, ids |-> ids \cup Range(got.ids), error |-> got.error]

\* The inner loop over block.items, stopping at the first throw.
RECURSIVE processItems(_, _)
processItems(items, ids) ==
    IF items = <<>> THEN [ok |-> TRUE, ids |-> ids, error |-> ""]
    ELSE LET r == processBalancesEventItem(Head(items), ids)
         IN  IF r.ok THEN processItems(Tail(items), r.ids) ELSE r

\* ------------------------------------------------------------------ state
VARIABLES
    store,              \* the persisted store, as committed
    tx,                 \* the store as the running batch's transaction sees it
    lastStateTimestamp, \* module-level variable of the processor
    accountIdsHex,      \* the batch handler's accumulator
    pc,                 \* "idle", "loop" (handler running) or "halted"
    idx,                \* blocks of ctx.blocks the loop has processed
    ctxLen,             \* ctx.blocks.length of the running batch
    error,              \* the error that ended the process
    blocks,             \* blocks fetched above the committed height
    tip,                \* height and timestamp of the last block fetched
    accountHash,        \* System.Account type hashes read, by height
    issuanceHash,       \* Balances.TotalIssuance type hashes read, by height
    balances,           \* System.Account values read, by height and account
    saveLog,            \* the saveAccounts calls of the running attempt
    faults,             \* faults so far
    firstRun,           \* what the last attempt had written when its commit failed
    canon               \* snapshot schedule of the block timestamps alone

vars ==
    << store, tx, lastStateTimestamp, accountIdsHex, pc, idx, ctxLen, error,
       blocks, tip, accountHash, issuanceHash, balances, saveLog, faults,
       firstRun, canon >>

\* --------------------------------------------------------------- the store
NeverFetched == [seen |-> FALSE, free |-> 0, reserved |-> 0]

EmptyStore ==
    [ accounts |-> {}, chainStates |-> {}, current |-> {}, height |-> 0,
      fetched |-> [a \in Accounts |-> NeverFetched] ]

\* store.save(rows): upsert by primary key.
Save(table, rows) ==
    {r \in table : \A n \in rows : n.id # r.id} \cup rows

\* store.remove(rows): delete by primary key, absent rows are skipped.
Remove(table, ids) == {r \in table : r.id \notin ids}

Max(S) == CHOOSE x \in S : \A y \in S : y <= x

\* store.get(ChainState, {order: {timestamp: 'DESC'}}): the timestamp of the
\* newest row, or 0 when there is none.
getLastChainState(s) ==
    IF s.chainStates = {} THEN 0 ELSE Max({r.timestamp : r \in s.chainStates})

\* ------------------------------------------------------------ chain storage
\* The values already read for a key, or the whole domain when the key was
\* never read: a block's storage does not change between two reads.
Reads(memo, key, domain) ==
    IF \E e \in memo : e[1] = key
    THEN {e[2] : e \in {x \in memo : x[1] = key}}
    ELSE domain

\* The answers System.Account can give for the accounts ids at a height.
BalanceAnswers(height, ids) ==
    {f \in [ids -> BalancePool] :
        \A a \in ids : f[a] \in Reads(balances, << height, a >>, BalancePool)}

NoAnswer(ids) == [a \in ids |-> [free |-> 0, reserved |-> 0]]

\* -------------------------------------------------------------- reconciler
\* SystemAccountStorage.isExists, then one batched query: no decoder version
\* is checked.
getSystemAccountBalances(hash, ids, answer) ==
    IF hash = "none"
    THEN [exists |-> FALSE, data |-> NoAnswer(ids)]
    ELSE [exists |-> TRUE,
          data |-> [a \in ids |->
                       [free |-> answer[a].free, reserved |-> answer[a].reserved]]]

getBalances(hash, ids, answer) == getSystemAccountBalances(hash, ids, answer)

\* An Account row whose total leaves out the reserved balance.
AccountRowTotalIsFree(id, balance, height) ==
    [ id |-> id, free |-> balance.free, reserved |-> balance.reserved,
      total |-> balance.free, updatedAt |-> height ]

AccountRow(id, balance, height) ==
    [ id |-> id, free |-> balance.free, reserved |-> balance.reserved,
      total |-> balance.free + balance.reserved, updatedAt |-> height ]

\* saveAccounts without the store.remove of the accounts whose total is zero.
saveAccountsNoRemove(s, block, ids, hash, answer) ==
    LET got == getBalances(hash, ids, answer)
        upserts ==
            {AccountRow(encodeId(a), got.data[a], block.height) :
                a \in {x \in ids : got.data[x].free + got.data[x].reserved > 0}}
    IN  IF ~got.exists
        THEN [store |-> s, warn |-> "No balances"]
        ELSE [store |->
                [s EXCEPT
                    !.accounts = Save(s.accounts, upserts),
                    !.fetched = [a \in Accounts |->
                        IF a \in ids
                        THEN [seen |-> TRUE, free |-> got.data[a].free,
                              reserved |-> got.data[a].reserved]
                        ELSE s.fetched[a]]],
              warn |-> ""]

\* saveAccounts taking the balances of an absent System.Account for zero.
saveAccountsAbsentIsZero(s, block, ids, hash, answer) ==
    LET got == getBalances(hash, ids, answer)
        deletions ==
            {encodeId(a) :
                a \in {x \in ids : ~(got.data[x].free + got.data[x].reserved > 0)}}
        upserts ==
            {AccountRow(encodeId(a), got.data[a], block.height) :
                a \in {x \in ids : got.data[x].free + got.data[x].reserved > 0}}
    IN  [store |->
            [s EXCEPT
                !.accounts = Remove(Save(s.accounts, upserts), deletions),
                !.fetched = [a \in Accounts |->
                    IF a \in ids /\ got.exists
                    THEN [seen |-> TRUE, free |-> got.data[a].free,
                          reserved |-> got.data[a].reserved]
                    ELSE s.fetched[a]]],
         warn |-> IF got.exists THEN "" ELSE "No balances"]

\* saveAccounts(ctx, block, accountIds): the store after it, and the warning
\* it logs.
saveAccounts(s, block, ids, hash, answer) ==
    LET got == getBalances(hash, ids, answer)
        upserts ==
            {AccountRow(encodeId(a), got.data[a], block.height) :
                a \in {x \in ids : got.data[x].free + got.data[x].reserved > 0}}
        deletions ==
            {encodeId(a) :
                a \in {x \in ids : ~(got.data[x].free + got.data[x].reserved > 0)}}
    IN  IF ~got.exists
        THEN [store |-> s, warn |-> "No balances"]
        ELSE [store |->
                [s EXCEPT
                    !.accounts = Remove(Save(s.accounts, upserts), deletions),
                    !.fetched = [a \in Accounts |->
                        IF a \in ids
                        THEN [seen |-> TRUE, free |-> got.data[a].free,
                              reserved |-> got.data[a].reserved]
                        ELSE s.fetched[a]]],
              warn |-> ""]

\* ------------------------------------------------------------- chain state
\* getTotalIssuance without the isExists test: an absent item has no known
\* version.
getTotalIssuanceAbsentThrows(hash, height) ==
    IF hash = "V1"
    THEN [ok |-> TRUE, defined |-> TRUE, value |-> IssuanceAt(height), error |-> ""]
    ELSE [ok |-> FALSE, defined |-> FALSE, value |-> 0,
          error |-> UnknownVersionError("BalancesTotalIssuanceStorage")]

getTotalIssuance(hash, height) ==
    IF hash = "none" THEN [ok |-> TRUE, defined |-> FALSE, value |-> 0, error |-> ""]
    ELSE IF hash = "V1"
    THEN [ok |-> TRUE, defined |-> TRUE, value |-> IssuanceAt(height), error |-> ""]
    ELSE [ok |-> FALSE, defined |-> FALSE, value |-> 0,
          error |-> UnknownVersionError("BalancesTotalIssuanceStorage")]

\* getChainState counting the ChainState rows instead of the Account rows.
getChainStateCountsStates(s, block, hash) ==
    LET issuance == getTotalIssuance(hash, block.height)
    IN  [ ok |-> issuance.ok, error |-> issuance.error,
          state |->
            [ id |-> block.id,
              timestamp |-> block.timestamp,
              blockNumber |-> block.height,
              totalIssuance |->
                IF issuance.defined /\ issuance.value # 0 THEN issuance.value ELSE 0,
              tokenHolders |-> Cardinality(s.chainStates) ] ]

getChainState(s, block, hash) ==
    LET issuance == getTotalIssuance(hash, block.height)
    IN  [ ok |-> issuance.ok, error |-> issuance.error,
          state |->
            [ id |-> block.id,
              timestamp |-> block.timestamp,
              blockNumber |-> block.height,
              totalIssuance |->
                IF issuance.defined /\ issuance.value # 0 THEN issuance.value ELSE 0,
              tokenHolders |-> Cardinality(s.accounts) ] ]

\* saveRegularChainState saving the state over the rows there are.
saveRegularChainStateOverwrites(s, block, hash) ==
    LET got == getChainState(s, block, hash)
    IN  IF ~got.ok THEN [ok |-> FALSE, store |-> s, error |-> got.error]
        ELSE [ok |-> TRUE, error |-> "",
              store |-> [s EXCEPT !.chainStates = {got.state}]]

\* store.insert(state): fails on a row with the same primary key.
saveRegularChainState(s, block, hash) ==
    LET got == getChainState(s, block, hash)
    IN  IF ~got.ok THEN [ok |-> FALSE, store |-> s, error |-> got.error]
        ELSE IF \E r \in s.chainStates : r.id = got.state.id
        THEN [ok |-> FALSE, store |-> s,
              error |-> "duplicate key value violates unique constraint"]
        ELSE [ok |-> TRUE, error |-> "",
              store |-> [s EXCEPT !.chainStates = @ \cup {got.state}]]

\* The single row of CurrentChainState.
CurrentId == 0

\* saveCurrentChainState(ctx, block): the chain state of the block, saved over
\* the current one.
saveCurrentChainState(s, block, hash) ==
    LET got == getChainState(s, block, hash)
    IN  IF ~got.ok THEN [ok |-> FALSE, store |-> s, error |-> got.error]
        ELSE [ok |-> TRUE, error |-> "",
              store |-> [s EXCEPT
                  !.current = Save(@, {[got.state EXCEPT !.id = CurrentId]})]]

\* ------------------------------------------------------------ batch handler
Init ==
    /\ store = EmptyStore
    /\ tx = EmptyStore
    /\ lastStateTimestamp = Undefined
    /\ accountIdsHex = {}
    /\ pc = "idle"
    /\ idx = 0
    /\ ctxLen = 0
    /\ error = ""
    /\ blocks = <<>>
    /\ tip = [height |-> 0, timestamp |-> 0]
    /\ accountHash = {}
    /\ issuanceHash = {}
    /\ balances = {}
    /\ saveLog = <<>>
    /\ faults = 0
    /\ firstRun = {}
    /\ canon = [last |-> 0, heights |-> {}]

Min(a, b) == IF a <= b THEN a ELSE b

\* The processor opens a transaction and calls processBalances(ctx) with the
\* next blocks; the handler starts with an empty accumulator.
BatchStart ==
    /\ pc = "idle"
    /\ store.height < MaxHeight
    /\ \E n \in 1..Min(MaxBatch, MaxHeight - store.height) : ctxLen' = n
    /\ pc' = "loop"
    /\ idx' = 0
    /\ tx' = store
    /\ accountIdsHex' = {}
    /\ saveLog' = <<>>
    /\ firstRun' = {}
    /\ UNCHANGED << store, lastStateTimestamp, error, blocks, tip, accountHash,
                    issuanceHash, balances, faults, canon >>

\* The handler throws: the transaction is rolled back and the process exits.
Halt(message) ==
    /\ pc' = "halted"
    /\ error' = message
    /\ tx' = store
    /\ idx' = 0
    /\ ctxLen' = 0
    /\ accountIdsHex' = {}
    /\ saveLog' = <<>>
    /\ firstRun' = {}
    /\ UNCHANGED store

\* The block the loop is at: fetched before, or the next one of the chain.
NextBlocks ==
    IF idx < Len(blocks)
    THEN {blocks[idx + 1]}
    ELSE {[ height |-> tip.height + 1, id |-> tip.height + 1,
            timestamp |-> tip.timestamp + dt, items |-> c ] :
                dt \in TimeSteps,
                c \in UsualItems \cup
                      (IF faults < MaxFaults THEN FaultyItems ELSE {})}

\* The archive's view of the chain after the loop has read block.
Fetched(block) ==
    /\ blocks' = IF idx < Len(blocks) THEN blocks
                 ELSE Append(blocks, block)
    /\ tip' = IF idx < Len(blocks) THEN tip
              ELSE [height |-> block.height, timestamp |-> block.timestamp]
    /\ canon' = IF idx < Len(blocks) \/ block.timestamp - canon.last < SAVE_PERIOD
                THEN canon
                ELSE [last |-> block.timestamp,
                      heights |-> canon.heights \cup {block.height}]

\* lastStateTimestamp after lines 78-80, were it to start from 0 whatever the
\* store holds.
InitializedFromZero(s) ==
    IF lastStateTimestamp = Undefined THEN 0 ELSE lastStateTimestamp

\* lastStateTimestamp after lines 78-80.
Initialized(s) ==
    IF lastStateTimestamp = Undefined THEN getLastChainState(s) ELSE lastStateTimestamp

\* A saveAccounts call that returned and the chain state saved after it: the
\* reference block, the accountIds, the type hash System.Account had there,
\* the warning logged, and the type hash Balances.TotalIssuance had there.
SaveEntry(block, ids, hash, warn, ihash) ==
    [ height |-> block.height, ids |-> ids, hash |-> hash, warn |-> warn,
      issuance |-> ihash ]

\* The faults among the hashes read at a height for the first time.
NewFaults(height, hash, ihash) ==
    (IF hash # UsualAccountHash /\ << height, hash >> \notin accountHash
     THEN 1 ELSE 0)
    + (IF ihash # UsualIssuanceHash /\ << height, ihash >> \notin issuanceHash
       THEN 1 ELSE 0)

\* The chain's view after System.Account and Balances.TotalIssuance were read
\* at a block.
Observed(block, ids, hash, answer, ihash) ==
    /\ accountHash' = accountHash \cup {<< block.height, hash >>}
    /\ balances' =
        IF hash = "none" THEN balances
        ELSE balances \cup {<< << block.height, a >>, answer[a] >> : a \in ids}
    /\ issuanceHash' = issuanceHash \cup {<< block.height, ihash >>}

\* A retry on a store that does not undo the writes of the failed attempt.
RetryKeepsWrites ==
    /\ tx' = tx
    /\ idx' = 0
    /\ accountIdsHex' = {}
    /\ saveLog' = <<>>
    /\ UNCHANGED << store, pc, ctxLen, error >>

\* The transaction is rolled back and the processor calls the handler again
\* with the same ctx.blocks, in the same process.
Retry ==
    /\ tx' = store
    /\ idx' = 0
    /\ accountIdsHex' = {}
    /\ saveLog' = <<>>
    /\ UNCHANGED << store, pc, ctxLen, error >>

\* The threshold branch with the accumulator cleared before saveAccounts is
\* called.
SnapshotClearsFirst(block, ids, fault) ==
    \E hash \in Reads(accountHash, block.height, AccountHashes) :
    \E answer \in IF hash = "none" THEN {NoAnswer({})}
                  ELSE BalanceAnswers(block.height, {}) :
    \E ihash \in Reads(issuanceHash, block.height, IssuanceHashes) :
    \E fails \in 0..1 :
        LET saved == saveAccounts(tx, block, {}, hash, answer)
            state == saveRegularChainState(saved.store, block, ihash)
            new == fault + NewFaults(block.height, hash, ihash)
                   + (IF state.ok THEN fails ELSE 0)
        IN  /\ faults + new <= MaxFaults
            /\ faults' = faults + new
            /\ Observed(block, {}, hash, answer, ihash)
            /\ IF ~state.ok
               THEN /\ fails = 0
                    /\ lastStateTimestamp' = Initialized(tx)
                    /\ Halt(state.error)
               ELSE IF fails = 0
               THEN /\ tx' = state.store
                    /\ lastStateTimestamp' = block.timestamp
                    /\ accountIdsHex' = {}
                    /\ saveLog' =
                        Append(saveLog,
                               SaveEntry(block, {}, hash, saved.warn, ihash))
                    /\ pc' = "loop"
                    /\ idx' = idx + 1
                    /\ UNCHANGED << store, ctxLen, error, firstRun >>
               ELSE /\ lastStateTimestamp' = Initialized(tx)
                    /\ Retry
                    /\ UNCHANGED firstRun

\* The threshold branch without accountIdsHex.clear().
SnapshotKeepsIds(block, ids, fault) ==
    \E hash \in Reads(accountHash, block.height, AccountHashes) :
    \E answer \in IF hash = "none" THEN {NoAnswer(ids)}
                  ELSE BalanceAnswers(block.height, ids) :
    \E ihash \in Reads(issuanceHash, block.height, IssuanceHashes) :
    \E fails \in 0..1 :
        LET saved == saveAccounts(tx, block, ids, hash, answer)
            state == saveRegularChainState(saved.store, block, ihash)
            new == fault + NewFaults(block.height, hash, ihash)
                   + (IF state.ok THEN fails ELSE 0)
        IN  /\ faults + new <= MaxFaults
            /\ faults' = faults + new
            /\ Observed(block, ids, hash, answer, ihash)
            /\ IF ~state.ok
               THEN /\ fails = 0
                    /\ lastStateTimestamp' = Initialized(tx)
                    /\ Halt(state.error)
               ELSE IF fails = 0
               THEN /\ tx' = state.store
                    /\ lastStateTimestamp' = block.timestamp
                    /\ accountIdsHex' = {toHex(a) : a \in ids}
                    /\ saveLog' =
                        Append(saveLog,
                               SaveEntry(block, ids, hash, saved.warn, ihash))
                    /\ pc' = "loop"
                    /\ idx' = idx + 1
                    /\ UNCHANGED << store, ctxLen, error, firstRun >>
               ELSE /\ lastStateTimestamp' = Initialized(tx)
                    /\ Retry
                    /\ UNCHANGED firstRun

\* One iteration of the loop over ctx.blocks with the threshold reached:
\* saveAccounts, saveRegularChainState, then the timestamp and the accumulator.
\* A write to the store can fail with a serialization failure.
Snapshot(block, ids, fault) ==
    \E hash \in Reads(accountHash, block.height, AccountHashes) :
    \E answer \in IF hash = "none" THEN {NoAnswer(ids)}
                  ELSE BalanceAnswers(block.height, ids) :
    \E ihash \in Reads(issuanceHash, block.height, IssuanceHashes) :
    \E fails \in 0..1 :
        LET saved == saveAccounts(tx, block, ids, hash, answer)
            state == saveRegularChainState(saved.store, block, ihash)
            new == fault + NewFaults(block.height, hash, ihash)
                   + (IF state.ok THEN fails ELSE 0)
        IN  /\ faults + new <= MaxFaults
            /\ faults' = faults + new
            /\ Observed(block, ids, hash, answer, ihash)
            /\ IF ~state.ok
               THEN /\ fails = 0
                    /\ lastStateTimestamp' = Initialized(tx)
                    /\ Halt(state.error)
               ELSE IF fails = 0
               THEN /\ tx' = state.store
                    /\ lastStateTimestamp' = block.timestamp
                    /\ accountIdsHex' = {}
                    /\ saveLog' =
                        Append(saveLog,
                               SaveEntry(block, ids, hash, saved.warn, ihash))
                    /\ pc' = "loop"
                    /\ idx' = idx + 1
                    /\ UNCHANGED << store, ctxLen, error, firstRun >>
               ELSE /\ lastStateTimestamp' = Initialized(tx)
                    /\ Retry
                    /\ UNCHANGED firstRun

\* The loop with the threshold looked at for the first block of ctx.blocks
\* only.
LoopBlockFirstOnly ==
    /\ pc = "loop"
    /\ idx < ctxLen
    /\ \E b \in NextBlocks :
        LET block == [b EXCEPT !.items = IF idx < Len(blocks) THEN @ ELSE Items(@)]
            fault == IF idx >= Len(blocks) /\ b.items \in FaultyItems THEN 1 ELSE 0
            touched == processItems(block.items, accountIdsHex)
            last == Initialized(tx)
        IN  /\ Fetched(block)
            /\ IF ~touched.ok
               THEN /\ Halt(touched.error)
                    /\ faults' = faults + fault
                    /\ UNCHANGED << lastStateTimestamp, accountHash, issuanceHash,
                                    balances >>
               ELSE IF idx = 0 /\ block.timestamp - last >= SAVE_PERIOD
               THEN Snapshot(block, {decodeHex(id) : id \in touched.ids}, fault)
               ELSE /\ lastStateTimestamp' = last
                    /\ accountIdsHex' = touched.ids
                    /\ idx' = idx + 1
                    /\ faults' = faults + fault
                    /\ UNCHANGED << store, tx, pc, ctxLen, error, accountHash,
                                    issuanceHash, balances, saveLog, firstRun >>

\* One iteration of the loop over ctx.blocks (lines 73-90).
LoopBlock ==
    /\ pc = "loop"
    /\ idx < ctxLen
    /\ \E b \in NextBlocks :
        LET block == [b EXCEPT !.items = IF idx < Len(blocks) THEN @ ELSE Items(@)]
            fault == IF idx >= Len(blocks) /\ b.items \in FaultyItems THEN 1 ELSE 0
            touched == processItems(block.items, accountIdsHex)
            last == Initialized(tx)
        IN  /\ Fetched(block)
            /\ IF ~touched.ok
               THEN /\ Halt(touched.error)
                    /\ faults' = faults + fault
                    /\ UNCHANGED << lastStateTimestamp, accountHash, issuanceHash,
                                    balances >>
               ELSE IF block.timestamp - last >= SAVE_PERIOD
               THEN Snapshot(block, {decodeHex(id) : id \in touched.ids}, fault)
               ELSE /\ lastStateTimestamp' = last
                    /\ accountIdsHex' = touched.ids
                    /\ idx' = idx + 1
                    /\ faults' = faults + fault
                    /\ UNCHANGED << store, tx, pc, ctxLen, error, accountHash,
                                    issuanceHash, balances, saveLog, firstRun >>

\* What is dropped from the chain's view once the blocks up to height are
\* committed: the processor never reads them again.
Above(memo, height) == {e \in memo : e[1] > height}

\* The transaction of the batch commits.
Commit(result, entry) ==
    /\ store' = result
    /\ tx' = result
    /\ pc' = "idle"
    /\ idx' = 0
    /\ ctxLen' = 0
    /\ accountIdsHex' = {}
    /\ saveLog' = Append(saveLog, entry)
    /\ blocks' = SubSeq(blocks, ctxLen + 1, Len(blocks))
    /\ accountHash' = Above(accountHash, result.height)
    /\ issuanceHash' = Above(issuanceHash, result.height)
    /\ balances' = {e \in balances : e[1][1] > result.height}
    /\ UNCHANGED << lastStateTimestamp, error, tip, firstRun, canon >>

\* The end of the handler (lines 92-96) and the commit of the transaction,
\* which succeeds or fails with a serialization failure.
BatchFinish ==
    /\ pc = "loop"
    /\ idx = ctxLen
    /\ LET block == blocks[ctxLen]
           ids == {decodeHex(id) : id \in accountIdsHex}
       IN  \E hash \in Reads(accountHash, block.height, AccountHashes) :
           \E answer \in IF hash = "none" THEN {NoAnswer(ids)}
                         ELSE BalanceAnswers(block.height, ids) :
           \E ihash \in Reads(issuanceHash, block.height, IssuanceHashes) :
           \E fails \in 0..1 :
             LET saved == saveAccounts(tx, block, ids, hash, answer)
                 state == saveCurrentChainState(saved.store, block, ihash)
                 result == [state.store EXCEPT !.height = block.height]
                 fault == NewFaults(block.height, hash, ihash)
                          + (IF state.ok THEN fails ELSE 0)
             IN  /\ faults + fault <= MaxFaults
                 /\ faults' = faults + fault
                 /\ IF ~state.ok
                    THEN /\ fails = 0
                         /\ Halt(state.error)
                         /\ Observed(block, ids, hash, answer, ihash)
                         /\ UNCHANGED << lastStateTimestamp, blocks, tip, canon >>
                    ELSE IF fails = 0
                    THEN Commit(result,
                                SaveEntry(block, ids, hash, saved.warn, ihash))
                    ELSE /\ Retry
                         /\ Observed(block, ids, hash, answer, ihash)
                         /\ UNCHANGED << lastStateTimestamp, blocks, tip, canon >>
                         /\ firstRun' =
                             {[ accounts |-> result.accounts,
                                chainStates |-> result.chainStates,
                                height |-> result.height,
                                fresh |-> store = EmptyStore ]}

\* The process is started again, after the error that ended it or after it
\* was stopped (a fault): the module is loaded anew and the open transaction
\* is gone.
Restart ==
    /\ pc \in {"idle", "halted"}
    /\ pc = "idle" => faults < MaxFaults
    /\ faults' = IF pc = "halted" THEN faults ELSE faults + 1
    /\ lastStateTimestamp' = Undefined
    /\ pc' = "idle"
    /\ error' = ""
    /\ tx' = store
    /\ idx' = 0
    /\ ctxLen' = 0
    /\ accountIdsHex' = {}
    /\ saveLog' = <<>>
    /\ firstRun' = {}
    /\ UNCHANGED << store, blocks, tip, accountHash, issuanceHash, balances, canon >>

Next == BatchStart \/ LoopBlock \/ BatchFinish \/ Restart

Spec == Init /\ [][Next]_vars

\* ------------------------------------------- the older batch handler
\* getSystemAccountBalances of the older processor: isExists, then isV1, and
\* otherwise getManyAsV3, which asserts isV3.
getSystemAccountBalancesOld(hash, ids, answer) ==
    IF hash = "none"
    THEN [ok |-> TRUE, error |-> "", exists |-> FALSE, data |-> NoAnswer(ids)]
    ELSE IF hash \in {"V1", "V3"}
    THEN [ok |-> TRUE, error |-> "", exists |-> TRUE,
          data |-> [a \in ids |->
                       [free |-> answer[a].free, reserved |-> answer[a].reserved]]]
    ELSE [ok |-> FALSE, error |-> "AssertionError", exists |-> TRUE,
          data |-> NoAnswer(ids)]

\* One iteration of the older handler's loop over ctx.blocks: the events of
\* the block, and nothing else.
OldLoopBlock ==
    /\ pc = "loop"
    /\ idx < ctxLen
    /\ \E b \in NextBlocks :
        LET block == [b EXCEPT !.items = IF idx < Len(blocks) THEN @ ELSE Items(@)]
            fault == IF idx >= Len(blocks) /\ b.items \in FaultyItems THEN 1 ELSE 0
            touched == processItems(block.items, accountIdsHex)
        IN  /\ Fetched(block)
            /\ faults' = faults + fault
            /\ IF ~touched.ok
               THEN /\ Halt(touched.error)
                    /\ UNCHANGED << lastStateTimestamp, accountHash, issuanceHash,
                                    balances >>
               ELSE /\ accountIdsHex' = touched.ids
                    /\ idx' = idx + 1
                    /\ UNCHANGED << store, tx, lastStateTimestamp, pc, ctxLen,
                                    error, accountHash, issuanceHash, balances,
                                    saveLog, firstRun >>

\* The end of the older handler: saveRegularChainState, then saveAccounts,
\* both at the last block, and the commit of the transaction.
OldBatchFinish ==
    /\ pc = "loop"
    /\ idx = ctxLen
    /\ LET block == blocks[ctxLen]
           ids == {decodeHex(id) : id \in accountIdsHex}
       IN  \E hash \in Reads(accountHash, block.height, AccountHashes) :
           \E answer \in IF hash = "none" THEN {NoAnswer(ids)}
                         ELSE BalanceAnswers(block.height, ids) :
           \E ihash \in Reads(issuanceHash, block.height, IssuanceHashes) :
           \E fails \in 0..1 :
             LET state == saveRegularChainState(tx, block, ihash)
                 got == getSystemAccountBalancesOld(hash, ids, answer)
                 saved == saveAccounts(state.store, block, ids, hash, answer)
                 result == [saved.store EXCEPT !.height = block.height]
                 ok == state.ok /\ got.ok
                 fault == NewFaults(block.height, hash, ihash)
                          + (IF ok THEN fails ELSE 0)
             IN  /\ faults + fault <= MaxFaults
                 /\ faults' = faults + fault
                 /\ IF ~ok
                    THEN /\ fails = 0
                         /\ Halt(IF state.ok THEN got.error ELSE state.error)
                         /\ Observed(block, ids, hash, answer, ihash)
                         /\ UNCHANGED << lastStateTimestamp, blocks, tip, canon >>
                    ELSE IF fails = 0
                    THEN Commit(result,
                                SaveEntry(block, ids, hash, saved.warn, ihash))
                    ELSE /\ Retry
                         /\ Observed(block, ids, hash, answer, ihash)
                         /\ UNCHANGED << lastStateTimestamp, blocks, tip, canon,
                                         firstRun >>

NextOld == BatchStart \/ OldLoopBlock \/ OldBatchFinish \/ Restart

SpecOld == Init /\ [][NextOld]_vars

\* ------------------------------------------------- the reconciler alone
\* Balances for the reconciler alone: nothing, 50 free, and the same 50 with
\* 20 of them reserved.
ReconcilePool ==
    { [free |-> 0, reserved |-> 0],
      [free |-> 50, reserved |-> 0],
      [free |-> 30, reserved |-> 20] }

\* One call saveAccounts(ctx, block, accountIds) on the open transaction, at
\* the next block, for any accounts and any balances of them.
Reconcile ==
    /\ tip.height <= MaxHeight
    /\ \E ids \in SUBSET Accounts :
       \E hash \in {"none", UsualAccountHash} :
       \E answer \in IF hash = "none" THEN {NoAnswer(ids)}
                     ELSE [ids -> ReconcilePool] :
       \E dt \in TimeSteps :
        LET block == [ height |-> tip.height + 1, id |-> tip.height + 1,
                       timestamp |-> tip.timestamp + dt, items |-> <<>> ]
            saved == saveAccounts(tx, block, ids, hash, answer)
        IN  /\ tx' = saved.store
            /\ saveLog' = << SaveEntry(block, ids, hash, saved.warn,
                                       UsualIssuanceHash) >>
            /\ tip' = [height |-> block.height, timestamp |-> block.timestamp]
    /\ UNCHANGED << store, lastStateTimestamp, accountIdsHex, pc, idx, ctxLen,
                    error, blocks, accountHash, issuanceHash, balances, faults,
                    firstRun, canon >>

SpecReconcile == Init /\ [][Reconcile]_vars

\* ------------------------------------------------- the extractors alone
\* One call processBalancesEventItem(ctx, item, accountIdsHex), for an event
\* of any supported kind, with any hash and any accounts; a throw ends the
\* handler, and the next starts with an empty accumulator.
Extract ==
    /\ \E i \in 1..Len(EventNames) :
       \E hash \in {OldHash(EventNames[i]), "V3110", "other"} :
       \E a \in Accounts : \E b \in Accounts :
        LET item == EventItem(EventNames[i], hash,
                              Payload(EventNames[i], hash, a, b))
            got == processBalancesEventItem(item, accountIdsHex)
        IN  /\ blocks' = << [ height |-> 1, id |-> 1, timestamp |-> 0,
                              items |-> << item >> ] >>
            /\ accountIdsHex' = IF got.ok THEN got.ids ELSE {}
            /\ error' = got.error
    /\ UNCHANGED << store, tx, lastStateTimestamp, pc, idx, ctxLen, tip,
                    accountHash, issuanceHash, balances, saveLog, faults,
                    firstRun, canon >>

SpecExtract == Init /\ [][Extract]_vars

\* ------------------------------------------------------------------ claims
RowsOf(s, a) == {r \in s.accounts : r.id = encodeId(a)}

\* C1: in the committed store, every account that was reconciled has a row
\* exactly when the free + reserved last fetched for it is above zero, and
\* every Account row has total = free + reserved (no row is kept with total 0).
C1_RowIffPositiveTotal ==
    /\ \A a \in Accounts :
        store.fetched[a].seen =>
            (RowsOf(store, a) # {}
                <=> store.fetched[a].free + store.fetched[a].reserved > 0)
    /\ \A r \in store.accounts : r.total = r.free + r.reserved /\ r.total > 0

\* C1 witness: a committed store in which one reconciled account has a row
\* and another, whose last fetched total is 0, has none.
C1_Witness ==
    /\ pc = "idle"
    /\ store.height = 2
    /\ \E a, b \in Accounts :
        /\ store.fetched[a].seen /\ RowsOf(store, a) = {}
        /\ store.fetched[b].seen /\ \E r \in RowsOf(store, b) : r.updatedAt = 1

\* The loop has gone through one more block of ctx.blocks without an error.
BlockDone == pc = "loop" /\ pc' = "loop" /\ idx' = idx + 1

\* C2: a ChainState row is inserted for a processed block exactly when the
\* block's timestamp minus the timestamp of the prior snapshot in the store
\* (0 when there is none) is at least SAVE_PERIOD, and then exactly one row.
C2_SnapshotIffIntervalSincePrior ==
    [][BlockDone =>
        LET block == blocks'[idx']
            new == tx'.chainStates \ tx.chainStates
        IN  IF block.timestamp - getLastChainState(tx) >= SAVE_PERIOD
            THEN Cardinality(new) = 1 /\ \A r \in new : r.id = block.id
            ELSE new = {}]_vars

\* The transaction of the running batch commits.
Committing == pc = "loop" /\ pc' = "idle"

\* The running attempt fails and the same batch is given to the handler again.
Retrying == pc = "loop" /\ pc' = "loop" /\ idx' = 0

\* C3: when a batch commits, CurrentChainState holds exactly one row, taken
\* from the last block of the batch and counting the Account rows there are
\* then; and a batch none of whose blocks is SAVE_PERIOD after the last
\* ChainState row adds no ChainState row.
C3_CurrentStateEveryWindow ==
    [][Committing =>
        LET block == blocks[ctxLen]
        IN  /\ Cardinality(store'.current) = 1
            /\ \A r \in store'.current :
                /\ r.blockNumber = block.height
                /\ r.timestamp = block.timestamp
                /\ r.totalIssuance \in {0, IssuanceAt(block.height)}
                /\ r.tokenHolders = Cardinality(store'.accounts)
            /\ (\A i \in 1..ctxLen :
                    blocks[i].timestamp - getLastChainState(store) < SAVE_PERIOD)
                => store'.chainStates = store.chainStates]_vars

\* C3 witness: two batches were committed, the first ending at block 1, no
\* ChainState row was added, and the single CurrentChainState row is block 2's.
C3_Witness ==
    /\ pc = "idle"
    /\ store.height = 2
    /\ store.chainStates = {}
    /\ \E r \in store.accounts : r.updatedAt = 1
    /\ Cardinality(store.current) = 1
    /\ \A r \in store.current : r.blockNumber = 2 /\ r.tokenHolders = 1

\* C4: no saveAccounts call goes through at a block where System.Account has
\* a type hash that no decoder version knows (the handler throws instead, and
\* nothing of the batch is written).
C4_UnknownHashNeverDecoded ==
    \A i \in 1..Len(saveLog) : saveLog[i].hash # "other"

\* The ChainState rows of the block with this id.
StatesOf(s, id) == {r \in s.chainStates : r.id = id}

\* C5: once the batch whose commit failed is processed again and committed,
\* every block that had a ChainState row in the failed attempt has exactly
\* one; and no block ever has two.
C5_RetryLeavesOneRowPerBlock ==
    /\ \A r \in store.chainStates : Cardinality(StatesOf(store, r.id)) = 1
    /\ \A f \in firstRun :
        (pc = "idle" /\ store.height = f.height)
            => \A r \in f.chainStates : Cardinality(StatesOf(store, r.id)) = 1

\* C6: the same blocks processed twice from the empty store, the second time
\* with the lastStateTimestamp the first left, give the same Account rows and
\* the same ChainState rows.
C6_ReplayGivesSameRows ==
    \A f \in firstRun :
        (f.fresh /\ pc = "idle" /\ store.height = f.height)
            => /\ store.accounts = f.accounts
               /\ store.chainStates = f.chainStates

\* C7: whatever the batches were, the committed blocks with a ChainState row
\* are those a run with one block per batch gives one: the blocks that are
\* SAVE_PERIOD after the previous such block.
C7_SnapshotsIndependentOfBatches ==
    pc = "idle" =>
        {r.blockNumber : r \in store.chainStates}
            = {h \in canon.heights : h <= store.height}

\* C8: a saveAccounts call at a block where System.Account is not defined
\* logs the warning, leaves the Account rows as they are, and the handler
\* goes on.
C8_AbsentStorageChangesNothing ==
    [][Len(saveLog') = Len(saveLog) + 1 =>
        LET call == saveLog'[Len(saveLog')]
        IN  call.hash = "none" =>
                /\ call.warn = "No balances"
                /\ tx'.accounts = tx.accounts
                /\ tx'.fetched = tx.fetched
                /\ pc' # "halted"]_vars

\* C8 witness: saveAccounts was called for an account that has a row, at a
\* block where System.Account is not defined.
C8_Witness ==
    /\ saveLog # <<>>
    /\ LET call == saveLog[Len(saveLog)]
       IN  /\ call.hash = "none"
           /\ \E a \in call.ids : RowsOf(tx, a) # {}

C10_ChainStateAppendOnly ==
    [][store.chainStates \subseteq store'.chainStates]_vars

\* C10 witness: a ChainState row was added to a store that held one.
C10_Witness ==
    \E r, q \in store.chainStates : r.blockNumber < q.blockNumber

\* A saveAccounts call and the chain state after it go through in this step.
Saved == Len(saveLog') = Len(saveLog) + 1

\* C11: a chain state computed at a block where Balances.TotalIssuance is not
\* defined is written all the same, durable or current, with totalIssuance 0
\* and the count of the Account rows there are then; the handler never throws
\* the unknown-version error of Balances.TotalIssuance at such a block.
C11_AbsentIssuanceIsZero ==
    [][/\ (Saved /\ saveLog'[Len(saveLog')].issuance = "none") =>
            LET height == saveLog'[Len(saveLog')].height
            IN  IF pc' = "loop"
                THEN \E r \in tx'.chainStates \ tx.chainStates :
                        /\ r.blockNumber = height
                        /\ r.totalIssuance = 0
                        /\ r.tokenHolders = Cardinality(tx'.accounts)
                ELSE \A r \in store'.current :
                        /\ r.blockNumber = height
                        /\ r.totalIssuance = 0
                        /\ r.tokenHolders = Cardinality(store'.accounts)
       /\ (pc = "loop" /\ pc' = "halted"
            /\ error' = UnknownVersionError("BalancesTotalIssuanceStorage"))
            => \E e \in issuanceHash' : e[2] = "other"]_vars

\* C11 witness: a ChainState row was written for a block with an Account row
\* where Balances.TotalIssuance is not defined.
C11_Witness ==
    /\ pc = "loop"
    /\ saveLog # <<>>
    /\ saveLog[Len(saveLog)].issuance = "none"
    /\ \E r \in tx.chainStates :
        /\ r.blockNumber = saveLog[Len(saveLog)].height
        /\ r.totalIssuance = 0
        /\ r.tokenHolders = 1

\* C12: in a committed batch every touched account is given to saveAccounts
\* exactly once, and with the last block of the batch as reference block.
C12_ReconciledOnceAtLastBlock ==
    pc = "idle" =>
        \A i \in 1..Len(saveLog) : \A a \in saveLog[i].ids :
            /\ saveLog[i].height = store.height
            /\ \A j \in 1..Len(saveLog) : a \in saveLog[j].ids => j = i

\* The accounts of the events of the blocks of the running batch above height
\* lo, up to height hi.
TouchedBetween(lo, hi) ==
    UNION { {decodeHex(id) : id \in processItems(blocks[i].items, {}).ids} :
                i \in {j \in 1..Len(blocks) :
                            blocks[j].height > lo /\ blocks[j].height <= hi} }

\* C12 as the code has it: in a committed batch saveAccounts is called at
\* every block that reaches the threshold and at the last block, each time
\* with exactly the accounts touched since the call before; so every touch
\* is reconciled once, at the first of these blocks at or after it, and once
\* per batch when no block of the batch reaches the threshold.
C12_ReconciledOncePerCall ==
    [][Committing =>
        LET log == saveLog'
        IN  /\ log[Len(log)].height = blocks[ctxLen].height
            /\ \A k \in 1..Len(log) :
                log[k].ids =
                    TouchedBetween(IF k = 1 THEN store.height
                                   ELSE log[k - 1].height,
                                   log[k].height)]_vars

\* C12 witness: a committed batch of two blocks in which account 2 was
\* reconciled at block 1 and again at block 2.
C12_Witness ==
    /\ pc = "idle"
    /\ Len(saveLog) = 2
    /\ saveLog[1].height = 1 /\ 2 \in saveLog[1].ids
    /\ saveLog[2].height = 2 /\ 2 \in saveLog[2].ids

\* C13: the chain states a batch writes, durable or current, are taken at the
\* last block of the batch after the accounts were reconciled: tokenHolders
\* counts the Account rows the batch leaves; and the accumulator is cleared
\* after that.
C13_SnapshotAfterReconciliation ==
    [][Committing =>
        /\ \A r \in (store'.chainStates \ store.chainStates) \cup store'.current :
            /\ r.blockNumber = blocks[ctxLen].height
            /\ r.tokenHolders = Cardinality(store'.accounts)
        /\ accountIdsHex' = {}]_vars

\* C14: a saveAccounts call at block b, for every account it fetched: with
\* free + reserved above zero the account has one row, with exactly the
\* fetched free and reserved, total = free + reserved and updatedAt = height
\* of b; with free + reserved zero it has no row, whether it had one or not;
\* the rows of the other accounts are as they were. A row of total 50 whose
\* account is fetched with 30 free and 20 reserved keeps total 50.
C14_ReconciliationPolicy ==
    [][(saveLog' # saveLog /\ saveLog' # <<>>
            /\ saveLog'[Len(saveLog')].hash # "none") =>
        LET call == saveLog'[Len(saveLog')]
        IN  \A a \in Accounts :
                IF a \in call.ids
                THEN LET got == tx'.fetched[a]
                     IN  IF got.free + got.reserved > 0
                         THEN RowsOf(tx', a) =
                                {[ id |-> encodeId(a), free |-> got.free,
                                   reserved |-> got.reserved,
                                   total |-> got.free + got.reserved,
                                   updatedAt |-> call.height ]}
                         ELSE RowsOf(tx', a) = {}
                ELSE RowsOf(tx', a) = RowsOf(tx, a)]_vars

\* C14 witness: at block 2 one account was upserted with 30 free, 20 reserved
\* and total 50, and the row another account got at block 1 is as it was.
C14_Witness ==
    /\ saveLog # <<>>
    /\ saveLog[1].height = 2
    /\ \E a \in saveLog[1].ids : \E b \in Accounts \ saveLog[1].ids :
        /\ \E r \in RowsOf(tx, a) :
            r.free = 30 /\ r.reserved = 20 /\ r.total = 50 /\ r.updatedAt = 2
        /\ \E r \in RowsOf(tx, b) : r.updatedAt = 1

\* C15: a ChainState row is written only for the first block of a batch, and
\* lastStateTimestamp is then that block's timestamp.
C15_SnapshotOnlyAtFirstBlock ==
    [][(BlockDone /\ tx'.chainStates # tx.chainStates) =>
        /\ idx = 0
        /\ lastStateTimestamp' = blocks'[idx'].timestamp]_vars

\* C15 as the code has it: the threshold is looked at for every block of a
\* batch, against lastStateTimestamp as the process holds it; a block that
\* reaches it gets a ChainState row and lastStateTimestamp becomes its
\* timestamp, any other block gets none and lastStateTimestamp stays.
C15_SnapshotAtAnyBlock ==
    [][BlockDone =>
        LET block == blocks'[idx']
            last == Initialized(tx)
            new == tx'.chainStates \ tx.chainStates
        IN  IF block.timestamp - last >= SAVE_PERIOD
            THEN /\ Cardinality(new) = 1
                 /\ \A r \in new : r.id = block.id /\ r.timestamp = block.timestamp
                 /\ lastStateTimestamp' = block.timestamp
            ELSE /\ new = {}
                 /\ lastStateTimestamp' = last]_vars

\* C15 witness: the second block of a batch got a ChainState row, and
\* lastStateTimestamp is its timestamp.
C15_Witness ==
    /\ pc = "loop"
    /\ idx = 2
    /\ \E r \in tx.chainStates :
        /\ r.blockNumber = store.height + 2
        /\ lastStateTimestamp = r.timestamp

\* C16: the step in which a process first uses lastStateTimestamp measures
\* its block against the newest ChainState row of the persisted store, or 0
\* when there is none: the block gets a ChainState row exactly when it is
\* SAVE_PERIOD or more after it, and lastStateTimestamp becomes the block's
\* timestamp then and the persisted one otherwise.
C16_InitializedFromStore ==
    [][(lastStateTimestamp = Undefined /\ lastStateTimestamp' # Undefined) =>
        LET persisted == getLastChainState(store)
            block == blocks'[idx + 1]
        IN  /\ lastStateTimestamp' \in {persisted, block.timestamp}
            /\ BlockDone =>
                IF block.timestamp - persisted >= SAVE_PERIOD
                THEN /\ lastStateTimestamp' = block.timestamp
                     /\ \E r \in tx'.chainStates \ tx.chainStates : r.id = block.id
                ELSE /\ lastStateTimestamp' = persisted
                     /\ tx'.chainStates = tx.chainStates]_vars

\* C16 witness: the process was started again after it halted at block 2 and
\* the rollback left the store empty; block 1, SAVE_PERIOD after 0, got its
\* ChainState row anew.
C16_Witness ==
    /\ pc = "loop"
    /\ idx = 1
    /\ Len(blocks) = 2
    /\ \E i \in 1..Len(blocks[2].items) : blocks[2].items[i].hash = "other"
    /\ store = EmptyStore
    /\ lastStateTimestamp = blocks[1].timestamp
    /\ \E r \in tx.chainStates : r.id = blocks[1].id

\* The accounts an event is about, as its payload names them.
Affected(item) ==
    IF item.hash = "V3110"
    THEN IF item.name \in PairEvents THEN {item.args.from, item.args.to}
         ELSE IF item.name = "Balances.Endowed" THEN {item.args.account}
         ELSE {item.args.who}
    ELSE IF item.name \in PairEvents THEN {item.args[1], item.args[2]}
         ELSE {item.args[1]}

\* C17: for an event of a supported kind with a hash a decoder knows, the
\* extraction adds to the accumulator exactly the accounts of the event: the
\* source and the destination of a Transfer or a ReserveRepatriated, the one
\* account of any other kind; it throws nothing and writes nothing.
C17_ExtractionAddsAffected ==
    [][blocks' # blocks =>
        LET item == blocks'[1].items[1]
        IN  item.hash \in {OldHash(item.name), "V3110"} =>
                /\ accountIdsHex' =
                    accountIdsHex \cup {toHex(a) : a \in Affected(item)}
                /\ Cardinality(Affected(item)) <=
                    (IF item.name \in PairEvents THEN 2 ELSE 1)
                /\ error' = ""
                /\ store' = store /\ tx' = tx]_vars

\* C17 witness: a ReserveRepatriated of the newer version between two
\* accounts was extracted, and both are in the accumulator.
C17_Witness ==
    /\ blocks # <<>>
    /\ blocks[1].items # <<>>
    /\ LET item == blocks[1].items[1]
       IN  /\ item.name = "Balances.ReserveRepatriated"
           /\ item.hash = "V3110"
           /\ item.args.from # item.args.to
           /\ accountIdsHex = {toHex(item.args.from), toHex(item.args.to)}

\* C18: between two runs of the handler, lastStateTimestamp, once it has a
\* value, is the timestamp of the newest ChainState row of the persisted
\* store, or 0 when there is none.
C18_TimestampMatchesStore ==
    (pc = "idle" \/ (pc = "loop" /\ idx = 0)) =>
        (lastStateTimestamp # Undefined =>
            lastStateTimestamp = getLastChainState(store))

\* The accumulator entries of the events of a block.
TouchedHex(block) == processItems(block.items, {}).ids

\* C19: the accumulator drops nothing that was not handed on: a block that
\* does not reach the threshold leaves in it all it held and the accounts of
\* its events; every saveAccounts call, in the loop or at the end, and
\* whether it finds balances or not, gets all the accumulator held and the
\* accounts of the events of its reference block.
C19_NoTouchedAccountDropped ==
    [][/\ (BlockDone /\ ~Saved) =>
            accountIdsHex' = accountIdsHex \cup TouchedHex(blocks'[idx'])
       /\ (Saved /\ pc = "loop") =>
            LET call == saveLog'[Len(saveLog')]
            IN  IF pc' = "loop"
                THEN /\ call.height = blocks'[idx'].height
                     /\ {toHex(a) : a \in call.ids} =
                            accountIdsHex \cup TouchedHex(blocks'[idx'])
                ELSE /\ call.height = blocks[ctxLen].height
                     /\ {toHex(a) : a \in call.ids} = accountIdsHex]_vars

\* C19 witness: in the loop, saveAccounts was called with two accounts, one
\* of them touched at a block before its reference block, found no balances,
\* and the accumulator was cleared.
C19_Witness ==
    /\ pc = "loop"
    /\ idx = 2
    /\ accountIdsHex = {}
    /\ saveLog # <<>>
    /\ LET call == saveLog[Len(saveLog)]
       IN  /\ call.height = blocks[2].height
           /\ call.warn = "No balances"
           /\ call.ids = Accounts
           /\ TouchedHex(blocks[1]) # {}
====
